---- MODULE Spec2Model ----
(***************************************************************************)
(* Model of frontend/src/App.js: the root component App.  App renders a    *)
(* div.App holding a decorative overlay, a BrowserRouter whose Routes has  *)
(* two Route entries ("/" -> HomePage, "/search" -> SearchResults), and a  *)
(* Toaster (position "top-center", richColors).                            *)
(*                                                                         *)
(* The state is the browser history and the router's current location,     *)
(* the mounted view tree (one node per rendered element, with the commit   *)
(* in which it was mounted), and the queue of every mounted Toaster.       *)
(* Paths are sequences of one-character strings so that route matching is  *)
(* computed character by character.                                        *)
(***************************************************************************)
EXTENDS Integers, Sequences, FiniteSets, TLC

VARIABLES hist, idx, location, tree, queues, toastsCounter

vars == <<hist, idx, location, tree, queues, toastsCounter>>

\* Bounds of the model.
MaxHistory == 2
MaxToasts == 2

----------------------------------------------------------------------------
\* Paths.

\* The two registered route paths (App.js lines 14 and 15).
Root == <<"/">>
Search == <<"/", "s", "e", "a", "r", "c", "h">>

\* Other locations a load or a navigation can produce.
SearchSlash == Search \o <<"/">>
SearchUpper == <<"/", "S", "e", "a", "r", "c", "h">>
SearchSub == Search \o <<"/", "x">>
SearchX == Search \o <<"x">>
About == <<"/", "a">>

Paths == {Root, Search, SearchSlash, SearchUpper, SearchSub, SearchX, About}

\* The toast variants richColors colours.
Severities == {"success", "error"}

----------------------------------------------------------------------------
\* Route matching, as <Routes> performs it for <Route path=...> entries that
\* set neither caseSensitive nor a splat: the whole pathname must match the
\* path, letter case ignored, trailing slashes allowed.

ToLower(c) ==
  CASE c = "S" -> "s"
    [] c = "E" -> "e"
    [] c = "A" -> "a"
    [] c = "R" -> "r"
    [] c = "C" -> "c"
    [] c = "H" -> "h"
    [] c = "X" -> "x"
    [] OTHER -> c

RECURSIVE StripTrailingSlashes(_)
StripTrailingSlashes(p) ==
  IF Len(p) > 0 /\ p[Len(p)] = "/"
    THEN StripTrailingSlashes(SubSeq(p, 1, Len(p) - 1))
    ELSE p

RECURSIVE StripLeadingSlashes(_)
StripLeadingSlashes(p) ==
  IF Len(p) > 0 /\ p[1] = "/"
    THEN StripLeadingSlashes(SubSeq(p, 2, Len(p)))
    ELSE p

\* The literal a route path compiles to: trailing slashes dropped, exactly
\* one leading slash.
compilePath(path) == <<"/">> \o StripLeadingSlashes(StripTrailingSlashes(path))

\* Faulty variant: prefix matching (end = false): the pathname may continue with
\* further segments after the literal.
matchPathPrefix(route, pathname) ==
  LET lit == compilePath(route.path)
      n == IF lit = <<"/">> THEN 0 ELSE Len(lit)
  IN  /\ Len(pathname) >= n
      /\ \A i \in 1..n : ToLower(pathname[i]) = ToLower(lit[i])
      /\ (Len(pathname) > n => pathname[n + 1] = "/")

matchPath(route, pathname) ==
  LET lit == compilePath(route.path)
      n == Len(lit)
  IN  /\ Len(pathname) >= n
      /\ \A i \in 1..n :
           IF route.caseSensitive
             THEN pathname[i] = lit[i]
             ELSE ToLower(pathname[i]) = ToLower(lit[i])
      /\ \A i \in (n + 1)..Len(pathname) : pathname[i] = "/"

\* Faulty variant: the element props of the two routes exchanged.
RouteTableSwapped ==
  << [path |-> Root, element |-> "SearchResults", caseSensitive |-> FALSE],
     [path |-> Search, element |-> "HomePage", caseSensitive |-> FALSE] >>

\* Faulty variant: the "/search" route registered under a misspelt path.
RouteTableMisspelt ==
  << [path |-> Root, element |-> "HomePage", caseSensitive |-> FALSE],
     [path |-> <<"/", "s", "e", "r", "a", "c", "h">>,
      element |-> "SearchResults", caseSensitive |-> FALSE] >>

\* Faulty variant: only the "/" route registered.
RouteTableHomeOnly ==
  << [path |-> Root, element |-> "HomePage", caseSensitive |-> FALSE] >>

\* The <Route> children of <Routes>, in source order.
RouteTable ==
  << [path |-> Root, element |-> "HomePage", caseSensitive |-> FALSE],
     [path |-> Search, element |-> "SearchResults", caseSensitive |-> FALSE] >>

PageTypes == {"HomePage", "SearchResults"}

\* Ranking of a route path: one point per segment, plus 1 for an empty
\* segment and 10 for a static one.
computeScore(path) ==
  LET slashes == Cardinality({i \in 1..Len(path) : path[i] = "/"})
      static == Cardinality({i \in 1..Len(path) :
                    path[i] # "/" /\ (i = 1 \/ path[i - 1] = "/")})
      segments == slashes + 1
  IN  segments + (segments - static) + 10 * static

\* Faulty variant: a catch-all fallback: an unmatched location renders the first
\* route.
matchRoutesWithFallback(pathname) ==
  LET m == {i \in DOMAIN RouteTable : matchPath(RouteTable[i], pathname)}
  IN  IF m = {} THEN 1 ELSE CHOOSE i \in m : \A j \in m : i <= j

\* The index of the route <Routes> renders at pathname, 0 when none matches:
\* the matching route of highest score, the earlier one on a tie.
matchRoutes(pathname) ==
  LET m == {i \in DOMAIN RouteTable : matchPath(RouteTable[i], pathname)}
      better(i, j) ==
        \/ computeScore(RouteTable[i].path) > computeScore(RouteTable[j].path)
        \/ /\ computeScore(RouteTable[i].path) = computeScore(RouteTable[j].path)
           /\ i <= j
  IN  IF m = {} THEN 0 ELSE CHOOSE i \in m : \A j \in m : better(i, j)

----------------------------------------------------------------------------
\* The element tree App returns.  An element is its position in the tree
\* (child indices from div.App down), its type and, for a Toaster, its props.

Element(pos, type) ==
  [pos |-> pos, type |-> type, position |-> "", richColors |-> FALSE]

\* Faulty variant: <Toaster /> with no position prop (the library's default).
ToasterDefaultPosition(pos) ==
  [pos |-> pos, type |-> "Toaster", position |-> "bottom-right",
   richColors |-> TRUE]

\* <Toaster position="top-center" richColors />
Toaster(pos) ==
  [pos |-> pos, type |-> "Toaster", position |-> "top-center",
   richColors |-> TRUE]

\* What <Routes> renders at loc: the matched route's element, or nothing.
Routes(pos, loc) ==
  LET r == matchRoutes(loc)
  IN  {Element(pos, "Routes")}
        \cup (IF r = 0 THEN {}
              ELSE {Element(pos \o <<1>>, RouteTable[r].element)})

\* Faulty variant: the Toaster written inside the routed page instead of beside
\* the router.
AppToasterInsideRoute(loc) ==
  LET routed == Routes(<<2, 1>>, loc)
  IN  {Element(<< >>, "div.App"), Element(<<1>>, "noise-overlay"),
       Element(<<2>>, "BrowserRouter")}
        \cup routed
        \cup {Toaster(e.pos \o <<1>>) : e \in {x \in routed : x.type \in PageTypes}}

\* Faulty variant: a second Toaster left inside the router.
AppDuplicateToaster(loc) ==
  {Element(<< >>, "div.App"), Element(<<1>>, "noise-overlay"),
   Element(<<2>>, "BrowserRouter"), Toaster(<<2, 2>>), Toaster(<<3>>)}
    \cup Routes(<<2, 1>>, loc)

\* Faulty variant: the overlay written inside the home page's route.
AppOverlayInsideHome(loc) ==
  LET routed == Routes(<<2, 1>>, loc)
  IN  {Element(<< >>, "div.App"), Element(<<2>>, "BrowserRouter"),
       Toaster(<<3>>)}
        \cup routed
        \cup {Element(e.pos \o <<1>>, "noise-overlay") :
                e \in {x \in routed : x.type = "HomePage"}}

\* function App(): div.App > [noise-overlay, BrowserRouter > Routes, Toaster]
App(loc) ==
  {Element(<< >>, "div.App"), Element(<<1>>, "noise-overlay"),
   Element(<<2>>, "BrowserRouter"), Toaster(<<3>>)}
    \cup Routes(<<2, 1>>, loc)

----------------------------------------------------------------------------
\* Mounting.  A mounted node is an element plus the commit that mounted it.
\* A node stays mounted across a render iff the element at its position, and
\* at every position above it, keeps its type; otherwise it is unmounted and
\* a new instance is mounted.

TypeAt(nodes, pos) ==
  IF \E n \in nodes : n.pos = pos
    THEN (CHOOSE n \in nodes : n.pos = pos).type
    ELSE "none"

Prefixes(pos) == {SubSeq(pos, 1, k) : k \in 0..Len(pos)}

Survives(old, elems, pos) ==
  \A q \in Prefixes(pos) : TypeAt(old, q) = TypeAt(elems, q)

InstAt(nodes, pos) == (CHOOSE n \in nodes : n.pos = pos).inst

\* A commit number no mounted node carries.
FreshInst(old) ==
  CHOOSE k \in 0..Cardinality(old) : \A n \in old : n.inst # k

Mounted(e, inst) ==
  [pos |-> e.pos, type |-> e.type, position |-> e.position,
   richColors |-> e.richColors, inst |-> inst]

Reconcile(old, elems) ==
  {Mounted(e, IF Survives(old, elems, e.pos)
                THEN InstAt(old, e.pos)
                ELSE FreshInst(old)) : e \in elems}

Hosts(nodes) == {n \in nodes : n.type = "Toaster"}

\* The queue of every mounted Toaster after a render: kept by a Toaster that
\* stayed mounted, empty for a newly mounted one.
HostQueues(old, new, q) ==
  [p \in {n.pos : n \in Hosts(new)} |->
     IF \E n \in Hosts(old) : n.pos = p /\ n.inst = InstAt(new, p)
       THEN q[p]
       ELSE << >>]

\* One render of App at loc, committed.
Render(loc) ==
  /\ tree' = Reconcile(tree, App(loc))
  /\ queues' = HostQueues(tree, tree', queues)

----------------------------------------------------------------------------
\* Initial load at any path: everything mounts in commit 0, queues empty.

Init ==
  /\ location \in Paths
  /\ hist = <<location>>
  /\ idx = 1
  /\ tree = Reconcile({}, App(location))
  /\ queues = HostQueues({}, tree, << >>)
  /\ toastsCounter = 0

----------------------------------------------------------------------------
\* Navigation: owned by the router.

\* A link click or a programmatic push.
NavigatePush(p) ==
  /\ idx < MaxHistory
  /\ hist' = SubSeq(hist, 1, idx) \o <<p>>
  /\ idx' = idx + 1
  /\ location' = p
  /\ Render(p)
  /\ UNCHANGED toastsCounter

\* A replacing navigation.
NavigateReplace(p) ==
  /\ hist' = [hist EXCEPT ![idx] = p]
  /\ location' = p
  /\ Render(p)
  /\ UNCHANGED <<idx, toastsCounter>>

\* Browser back.
GoBack ==
  /\ idx > 1
  /\ idx' = idx - 1
  /\ location' = hist[idx - 1]
  /\ Render(hist[idx - 1])
  /\ UNCHANGED <<hist, toastsCounter>>

\* Browser forward.
GoForward ==
  /\ idx < Len(hist)
  /\ idx' = idx + 1
  /\ location' = hist[idx + 1]
  /\ Render(hist[idx + 1])
  /\ UNCHANGED <<hist, toastsCounter>>

----------------------------------------------------------------------------
\* Notifications: owned by the toast subsystem.

Without(q, id) == SelectSeq(q, LAMBDA t : t.id # id)

\* The ids of the notifications some mounted Toaster holds.
QueuedIds ==
  UNION {{queues[h][i].id : i \in 1..Len(queues[h])} : h \in DOMAIN queues}

\* The page component rendered inside the route boundary, "none" when the
\* location is unmatched.
Page == TypeAt(tree, <<2, 1, 1>>)

\* A notification request from the rendered page component: the request gets
\* the next id, and every mounted Toaster appends it to its queue.
Push(by, severity) ==
  /\ by \in PageTypes
  /\ by = Page
  /\ toastsCounter < MaxToasts
  /\ toastsCounter' = toastsCounter + 1
  /\ queues' = [h \in DOMAIN queues |->
                  Append(queues[h],
                         [id |-> toastsCounter + 1, type |-> severity])]
  /\ UNCHANGED <<hist, idx, location, tree>>

\* The display time of a queued notification runs out.
Expire(id) ==
  /\ id \in QueuedIds
  /\ queues' = [h \in DOMAIN queues |-> Without(queues[h], id)]
  /\ UNCHANGED <<hist, idx, location, tree, toastsCounter>>

\* Faulty variant: dismissing a notification also sends the router to "/".
DismissAndGoHome(id) ==
  /\ id \in QueuedIds
  /\ hist' = [hist EXCEPT ![idx] = Root]
  /\ location' = Root
  /\ tree' = Reconcile(tree, App(Root))
  /\ queues' = [h \in DOMAIN queues |-> Without(queues[h], id)]
  /\ UNCHANGED <<idx, toastsCounter>>

\* The user dismisses a queued notification.
Dismiss(id) ==
  /\ id \in QueuedIds
  /\ queues' = [h \in DOMAIN queues |-> Without(queues[h], id)]
  /\ UNCHANGED <<hist, idx, location, tree, toastsCounter>>

\* What the Toaster at position h shows: its queue, every entry at the
\* placement the Toaster element was given.
Displayed(h) ==
  [i \in 1..Len(queues[h]) |->
     [toast |-> queues[h][i],
      position |-> (CHOOSE n \in Hosts(tree) : n.pos = h).position]]

----------------------------------------------------------------------------

Next ==
  \/ \E p \in Paths : NavigatePush(p)
  \/ \E p \in Paths : NavigateReplace(p)
  \/ GoBack
  \/ GoForward
  \/ \E by \in PageTypes, severity \in Severities : Push(by, severity)
  \/ \E id \in 1..MaxToasts : Expire(id)
  \/ \E id \in 1..MaxToasts : Dismiss(id)

Spec == Init /\ [][Next]_vars

----------------------------------------------------------------------------
\* Properties.

\* The page components rendered inside the route boundary.
PagesRendered == {n \in tree : n.type \in PageTypes}

\* Everything rendered below <Routes>.
InsideRoutes == {n \in tree : Len(n.pos) > 2 /\ SubSeq(n.pos, 1, 2) = <<2, 1>>}

\* The shell: everything outside the route boundary.
Shell == tree \ InsideRoutes

\* A location with letter case and trailing slashes removed.
Canonical(p) ==
  LET s == StripTrailingSlashes([i \in 1..Len(p) |-> ToLower(p[i])])
  IN  IF s = << >> THEN Root ELSE s

Unmatched(p) == Canonical(p) \notin {Root, Search}

Navigated == location' # location \/ hist' # hist \/ idx' # idx

\* C1: whenever the location is exactly "/", HomePage is the view rendered
\* inside the route boundary and SearchResults is not rendered.
C1_RootRendersHomePage ==
  location = Root =>
    /\ Page = "HomePage"
    /\ \A n \in tree : n.type # "SearchResults"

\* Reached "/" again by going to "/search" and back.
C1_Witness ==
  /\ location = Root /\ hist = <<Root, Search>> /\ idx = 1
  /\ Page = "HomePage"

\* C2: whenever the location is exactly "/search", SearchResults is the view
\* rendered inside the route boundary and HomePage is not rendered.
C2_SearchRendersSearchResults ==
  location = Search =>
    /\ Page = "SearchResults"
    /\ \A n \in tree : n.type # "HomePage"

\* Reached "/search" by a push from "/".
C2_Witness ==
  /\ location = Search /\ hist = <<Root, Search>> /\ idx = 2
  /\ Page = "SearchResults"

\* C3: in every reachable state, at a matched or an unmatched location,
\* exactly one notification host is mounted.
C3_ExactlyOneHost == Cardinality(Hosts(tree)) = 1

\* An unmatched location, after a navigation and both notifications.
C3_Witness ==
  /\ Unmatched(location) /\ idx = 2 /\ toastsCounter = MaxToasts
  /\ Cardinality(Hosts(tree)) = 1

\* C4: a navigation leaves the notification host instance and its queue
\* unchanged: the host is not remounted and every pending notification is
\* still queued, in the same order.
C4_NavigationKeepsHost ==
  [][Navigated => Hosts(tree') = Hosts(tree) /\ queues' = queues]_vars

\* Back at "/" from "/search" with two notifications pending.
C4_Witness ==
  /\ hist = <<Root, Search>> /\ idx = 1
  /\ \E h \in DOMAIN queues : Len(queues[h]) = 2

\* C5: a notification request from the rendered page component adds exactly
\* one entry to the single host's queue: the queue grows by one, the new
\* entry comes last, the earlier entries are kept in order, and the entry is
\* displayed top-center.
C5_PushAppendsOneTopCenter ==
  [][toastsCounter' # toastsCounter =>
       /\ Page \in PageTypes
       /\ Cardinality(DOMAIN queues) = 1
       /\ DOMAIN queues' = DOMAIN queues
       /\ \A h \in DOMAIN queues :
            /\ Len(queues'[h]) = Len(queues[h]) + 1
            /\ SubSeq(queues'[h], 1, Len(queues[h])) = queues[h]
            /\ queues'[h][Len(queues'[h])].id = toastsCounter'
            /\ Displayed(h)'[Len(queues'[h])].position = "top-center"]_vars

\* A request made from SearchResults behind one made earlier.
C5_Witness ==
  /\ Page = "SearchResults"
  /\ \E h \in DOMAIN queues :
       /\ Len(queues[h]) = 2
       /\ queues[h][2].id = toastsCounter
       /\ Displayed(h)[2].position = "top-center"

\* C6: the decorative overlay is in the view tree in every reachable state
\* whose location is "/" or "/search".
C6_OverlayPresent ==
  location \in {Root, Search} => \E n \in tree : n.type = "noise-overlay"

\* At "/search" after a navigation, a request and its expiry.
C6_Witness ==
  /\ location = Search /\ idx = 2 /\ toastsCounter = 1 /\ QueuedIds = {}
  /\ \E n \in tree : n.type = "noise-overlay"

\* C7 as stated: exactly one of the two page components is rendered, never
\* both and never none.
C7_ExactlyOnePage == Cardinality(PagesRendered) = 1

\* C7 amended: at most one page component is rendered, never both; exactly
\* one at "/" and at "/search", and none when no route matches.
C7_AtMostOnePage ==
  /\ Cardinality(PagesRendered) <= 1
  /\ location \in {Root, Search} => Cardinality(PagesRendered) = 1
  /\ matchRoutes(location) = 0 => PagesRendered = {}

\* No page at "/a", reached by a push from "/search".
C7_Witness ==
  /\ hist = <<Search, About>> /\ idx = 2
  /\ PagesRendered = {}

\* C8 as stated: matching is exact: HomePage only at "/", SearchResults only
\* at "/search", neither anywhere else.
C8_ExactMatchOnly ==
  /\ Page = "HomePage" => location = Root
  /\ Page = "SearchResults" => location = Search

\* C8 amended: a route is rendered exactly when the whole location equals
\* its path up to letter case and trailing slashes; a location with a longer
\* or a further segment renders neither page.
C8_WholePathMatch ==
  /\ Page = "HomePage" <=> Canonical(location) = Root
  /\ Page = "SearchResults" <=> Canonical(location) = Search
  /\ location \in {SearchSub, SearchX} => Page = "none"

\* "/search/" renders SearchResults, reached from "/search/x".
C8_Witness ==
  /\ hist = <<SearchSub, SearchSlash>> /\ idx = 2
  /\ Page = "SearchResults"

\* C9: at an unmatched location nothing is rendered inside the route
\* boundary while the shell is unaffected, and a later navigation to "/" or
\* "/search" renders that page again.
C9_UnmatchedRendersNothing ==
  /\ [](Unmatched(location) =>
          /\ InsideRoutes = {}
          /\ \E n \in tree : n.type = "noise-overlay"
          /\ Cardinality(Hosts(tree)) = 1)
  /\ [][Unmatched(location') /\ Navigated =>
          Shell' = Shell /\ queues' = queues]_vars
  /\ [][Unmatched(location) =>
          /\ location' = Root => Page' = "HomePage"
          /\ location' = Search => Page' = "SearchResults"]_vars

\* HomePage rendered again after the unmatched "/a".
C9_Witness ==
  /\ hist = <<About, Root>> /\ idx = 2
  /\ Page = "HomePage"

\* C10: a notification operation (push, expiry, dismissal) leaves the
\* router's state unchanged: the location, the history and what is rendered
\* inside the route boundary.
C10_NotificationKeepsRouter ==
  [][queues' # queues =>
       /\ location' = location
       /\ hist' = hist
       /\ idx' = idx
       /\ InsideRoutes' = InsideRoutes]_vars

\* Two requests, one of them removed, interleaved with a navigation.
C10_Witness ==
  /\ location = Search /\ idx = 2 /\ toastsCounter = 2
  /\ Cardinality(QueuedIds) = 1
  /\ Page = "SearchResults"

====
